---------------------------- MODULE Spec2Model ----------------------------
(***************************************************************************)
(* Model of numero33/size-branch-compare, src/src/index.ts (the current    *)
(* version of the action, lines 264-574 of the file).                      *)
(*                                                                         *)
(* Strings are modelled as sequences of tokens: a path "chunk.abc.js" is   *)
(* <<"chunk","abc","js">>, the empty string is <<>> and concatenation is   *)
(* \o.  Numbers are integers; the floating point values NaN and Infinity   *)
(* that differencePercentage can produce are modelled explicitly.          *)
(***************************************************************************)
EXTENDS Integers, Sequences, FiniteSets, TLC

VARIABLES
    \* inputs and context of one run of the action
    filesInput,         \* main: const files = getInput("files")
    matchRegex,         \* main: new RegExp(getInput("match"))
    sha,                \* main: context.sha
    currentFilesSizes,  \* main: the sizes of the globbed files
    \* the repository, as the GitHub API shows it
    artifacts,          \* actions.listArtifactsForRepo
    pulls,              \* the pull requests of the repository
    tips,               \* repos.listCommits({sha: ref}).data[0].sha, per ref
    comments,           \* issues.listComments, per pull request number
    \* locals of main
    pullRequests,       \* main: const pullRequests
    prIndex,            \* main: position of the for loop in pullRequests
    baseSha,            \* main: const baseSha
    headSha,            \* main: const headSha
    baseFiles,          \* main: let baseFiles
    headFiles,          \* main: let headFiles
    fileSizeChanges,    \* main: const fileSizeChanges
    commentBody,        \* main: const commentBody
    previousComment,    \* main: const previousComment
    pc,                 \* position of main()
    outcome,            \* "running", "success", or the message given to setFailed
    \* bookkeeping
    trace,              \* the API calls and skips of the current run, in order
    runs                \* number of runs started

context == <<filesInput, matchRegex, sha, currentFilesSizes>>
repository == <<artifacts, pulls, tips, comments>>
locals == <<pullRequests, prIndex, baseSha, headSha, baseFiles, headFiles,
            fileSizeChanges, commentBody, previousComment>>
vars == <<context, repository, locals, pc, outcome, trace, runs>>

-----------------------------------------------------------------------------
(* Bounds and input universes *)

MaxFiles == 2   \* longest snapshot drawn as an input

\* Paths relative to process.cwd()
Paths ==
    { <<"chunk", "abc", "js">>, <<"chunk", "def", "js">>, <<"readme", "txt">> }

\* <<size, gzip>> of a file
SizePairs == { <<100, 40>>, <<120, 40>>, <<100, 50>> }

\* Values of the "match" input
Patterns ==
    { "", "([a-z]+)\\..*\\.js$", "(readme)\\.txt$", "([a-z]+)\\.(?:.*\\.)?([a-z]+)$" }

Cwd == <<"cwd">>

\* IFileSize as built by main from a globbed path
IFileSize(path, sp) ==
    [name |-> path, full |-> Cwd \o path, size |-> sp[1], gzip |-> sp[2]]

FileRecords == { IFileSize(p, sp) : p \in Paths, sp \in SizePairs }

RECURSIVE SnapshotsOfLen(_)
SnapshotsOfLen(n) ==
    IF n = 0 THEN { <<>> }
    ELSE { Append(s, r) : s \in SnapshotsOfLen(n - 1), r \in FileRecords }

DistinctNames(s) ==
    \A i, j \in 1..Len(s) : i # j => s[i].name # s[j].name

\* Snapshots: no two records of one snapshot share a name (one per globbed path)
Snapshots ==
    { s \in UNION { SnapshotsOfLen(n) : n \in 0..MaxFiles } : DistinctNames(s) }

-----------------------------------------------------------------------------
(* JavaScript values *)

NULL == <<"null">>     \* null, as the value of a match key
UNDEFINED == -1        \* undefined, as the value of x?.size (sizes are >= 0)

\* Array.from(new Set(s)): the distinct elements in first-seen order
RECURSIVE ArrayFromSet(_)
ArrayFromSet(s) ==
    IF s = <<>> THEN <<>>
    ELSE LET init == ArrayFromSet(SubSeq(s, 1, Len(s) - 1))
             x    == s[Len(s)]
         IN IF \E i \in 1..Len(init) : init[i] = x THEN init ELSE Append(init, x)

RECURSIVE Join(_)
Join(groups) ==
    IF groups = <<>> THEN <<>> ELSE Head(groups) \o Join(Tail(groups))

\* String.prototype.match(regex)?.slice(1): <<"nomatch">> stands for undefined,
\* otherwise <<"groups", g>> with g the sequence of captured groups.
MatchGroups(full, pattern) ==
    LET path == SubSeq(full, Len(Cwd) + 1, Len(full))
        stem == <<path[1]>>
        ext  == <<path[Len(path)]>>
    IN CASE pattern = "" -> <<"groups", <<>>>>
         [] pattern = "([a-z]+)\\..*\\.js$" ->
                IF ext = <<"js">> THEN <<"groups", <<stem>>>> ELSE <<"nomatch">>
         [] pattern = "(readme)\\.txt$" ->
                IF path = <<"readme", "txt">> THEN <<"groups", <<stem>>>>
                ELSE <<"nomatch">>
         [] pattern = "([a-z]+)\\.(?:.*\\.)?([a-z]+)$" -> <<"groups", <<stem, ext>>>>


\* x.full.match(matchRegex)?.slice(1)?.join("") ?? null
MatchKey(full, pattern) ==
    LET m == MatchGroups(full, pattern)
    IN IF m[1] = "nomatch" THEN NULL ELSE Join(m[2])

\* files.map(x => ({...x, match: ...}))
AfterMatch(files, pattern) ==
    [i \in 1..Len(files) |->
        [name  |-> files[i].name, full |-> files[i].full,
         size  |-> files[i].size, gzip |-> files[i].gzip,
         match |-> MatchKey(files[i].full, pattern)]]

\* files.find(y => y.match === x): <<>> for undefined, else <<the first such y>>
RECURSIVE FindByMatch(_, _)
FindByMatch(files, x) ==
    IF files = <<>> THEN <<>>
    ELSE IF Head(files).match = x THEN <<Head(files)>>
    ELSE FindByMatch(Tail(files), x)

\* x.base?.size
OptSize(o) == IF o = <<>> THEN UNDEFINED ELSE o[1].size

\* Mutant of KeepChange: a change of the gzip size alone keeps the row
KeepChangeAnySize(x) ==
    \/ OptSize(x.base) # OptSize(x.head)
    \/ (x.base # <<>> /\ x.head # <<>> /\ x.base[1].gzip # x.head[1].gzip)

\* Mutant of KeepChange: a key found on one side only is filtered out
KeepChangeBothSides(x) ==
    x.base # <<>> /\ x.head # <<>> /\ x.base[1].size # x.head[1].size

\* .filter(x => x.base === null || x.head === null || x.base?.size !== x.head?.size)
\* find yields undefined, never null, so the first two tests are always false.
KeepChange(x) == OptSize(x.base) # OptSize(x.head)

RECURSIVE Filter(_)
Filter(s) ==
    IF s = <<>> THEN <<>>
    ELSE IF KeepChange(Head(s)) THEN <<Head(s)>> \o Filter(Tail(s))
    ELSE Filter(Tail(s))

\* const fileSizeChanges = Array.from(new Set([...base, ...head].map(x => x.match)))
\*     .map(x => ({base: base.find(...), head: head.find(...)})).filter(...)
FileSizeChanges(base, head, pattern) ==
    LET b    == AfterMatch(base, pattern)
        h    == AfterMatch(head, pattern)
        all  == b \o h
        keys == ArrayFromSet([i \in 1..Len(all) |-> all[i].match])
    IN Filter([i \in 1..Len(keys) |->
                 [base |-> FindByMatch(b, keys[i]),
                  head |-> FindByMatch(h, keys[i])]])

\* sumSizes
RECURSIVE sumSizes(_)
sumSizes(files) ==
    IF files = <<>> THEN [size |-> 0, gzip |-> 0]
    ELSE LET acc == sumSizes(SubSeq(files, 1, Len(files) - 1))
             val == files[Len(files)]
         IN [size |-> acc.size + val.size, gzip |-> acc.gzip + val.gzip]

-----------------------------------------------------------------------------
(* Numbers.  A JavaScript number is [kind, num, den]: kind "fin" is the     *)
(* rational num/den (den > 0), "inf" is Infinity with the sign of num, and *)
(* "nan" is NaN.  Sizes are small integers, so the rounding of doubles is  *)
(* not modelled.                                                           *)

Fin(n, d) == [kind |-> "fin", num |-> n, den |-> d]
Inf(s)    == [kind |-> "inf", num |-> s, den |-> 0]
NaN       == [kind |-> "nan", num |-> 0, den |-> 0]

Abs(n)  == IF n < 0 THEN -n ELSE n
Sign(n) == IF n > 0 THEN 1 ELSE IF n < 0 THEN -1 ELSE 0

\* n / d on integers, as a JavaScript number
JsDiv(n, d) ==
    IF d = 0 THEN (IF n = 0 THEN NaN ELSE Inf(Sign(n)))
    ELSE Fin(n * Sign(d), Abs(d))

\* v * k for an integer k
JsMul(v, k) ==
    CASE v.kind = "nan" -> NaN
      [] v.kind = "inf" -> IF k = 0 THEN NaN ELSE Inf(v.num * Sign(k))
      [] v.kind = "fin" -> Fin(v.num * k, v.den)

isNaN(v) == v.kind = "nan"

\* Mutant of differencePercentage: the isNaN guard is missing
differencePercentageUnguarded(a, b) ==
    JsMul(JsMul(JsDiv(Abs(a - b), a), Sign(b - a)), 100)

\* function differencePercentage(a, b)
differencePercentage(a, b) ==
    LET v == JsMul(JsMul(JsDiv(Abs(a - b), a), Sign(b - a)), 100)
    IN IF isNaN(v) THEN Fin(0, 1) ELSE v

\* A rendered percentage: "=" (eq), or prefix, then value.toFixed(2), then "%".
\* toFixed(2) is "Infinity", "-Infinity" or "NaN" (fixed), or a decimal with
\* two places, kept as its sign and its value in hundredths.
PercentText(eq, prefix, fixed, neg, hundredths) ==
    [eq |-> eq, prefix |-> prefix, fixed |-> fixed, neg |-> neg,
     hundredths |-> hundredths]

\* function signedFixedPercent(value)
signedFixedPercent(value) ==
    IF value.kind = "fin" /\ value.num = 0 THEN PercentText(TRUE, "", "", FALSE, 0)
    ELSE LET positive == value.kind # "nan" /\ value.num > 0
             prefix   == IF positive THEN "+" ELSE ""
         IN CASE value.kind = "nan" -> PercentText(FALSE, prefix, "NaN", FALSE, 0)
              [] value.kind = "inf" ->
                    PercentText(FALSE, prefix,
                                IF value.num > 0 THEN "Infinity" ELSE "-Infinity",
                                value.num < 0, 0)
              [] value.kind = "fin" ->
                    PercentText(FALSE, prefix, "", value.num < 0,
                                (2 * Abs(value.num) * 100 + value.den)
                                    \div (2 * value.den))

\* prettyBytes(n, {signed}) for |n| < 1000: prefix, digits, " B".  The model's
\* sizes and their sums stay below 1000, where the rendering is exact.
prettyBytes(n, signed) ==
    [prefix |-> IF n < 0 THEN "-"
                ELSE IF signed THEN (IF n = 0 THEN " " ELSE "+") ELSE "",
     number |-> Abs(n), unit |-> "B"]

\* function createMarkdownTableChangeRow(name, baseSizes, headSizes)
createMarkdownTableChangeRow(name, baseSizes, headSizes) ==
    [File        |-> name,
     Change      |-> [pct   |-> signedFixedPercent(
                                    differencePercentage(baseSizes.size, headSizes.size)),
                      delta |-> prettyBytes(headSizes.size - baseSizes.size, TRUE)],
     Base        |-> prettyBytes(baseSizes.size, FALSE),
     Current     |-> prettyBytes(headSizes.size, FALSE),
     GzipChange  |-> [pct   |-> signedFixedPercent(
                                    differencePercentage(baseSizes.gzip, headSizes.gzip)),
                      delta |-> prettyBytes(headSizes.gzip - baseSizes.gzip, TRUE)],
     BaseGzip    |-> prettyBytes(baseSizes.gzip, FALSE),
     CurrentGzip |-> prettyBytes(headSizes.gzip, FALSE)]

\* Mutant of RowLabel: file.head?.name ?? file.base?.name ?? ""
RowLabelHeadFirst(file) ==
    IF file.head # <<>> THEN file.head[1].name
    ELSE IF file.base # <<>> THEN file.base[1].name
    ELSE <<>>

\* file.base?.name ?? file.head?.name ?? ""
RowLabel(file) ==
    IF file.base # <<>> THEN file.base[1].name
    ELSE IF file.head # <<>> THEN file.head[1].name
    ELSE <<>>

\* file.base ?? {size: 0, gzip: 0}
OrZero(o) ==
    IF o = <<>> THEN [size |-> 0, gzip |-> 0]
    ELSE [size |-> o[1].size, gzip |-> o[1].gzip]

SIZE_COMPARE_HEADING == <<"## size-compare report">>

\* The rows of the markdown table after its header row: Total, then one per change
TableRows(base, head, changes) ==
    <<createMarkdownTableChangeRow(<<"Total">>, sumSizes(base), sumSizes(head))>>
    \o [i \in 1..Len(changes) |->
          createMarkdownTableChangeRow(RowLabel(changes[i]),
                                       OrZero(changes[i].base),
                                       OrZero(changes[i].head))]

\* const commentBody = [SIZE_COMPARE_HEADING, createCompareLink(...), markdownTable(...)]
CommentBody(base, head, changes, bSha, hSha) ==
    [heading |-> SIZE_COMPARE_HEADING,
     link    |-> <<bSha, hSha>>,
     table   |-> TableRows(base, head, changes)]

NoBody == [heading |-> <<>>, link |-> <<"", "">>, table |-> <<>>]

-----------------------------------------------------------------------------
(* The diff step of main (lines 398-428) applied to arbitrary snapshots *)

InitDiff ==
    /\ matchRegex \in Patterns
    /\ baseFiles \in Snapshots
    /\ headFiles \in Snapshots
    /\ fileSizeChanges = <<>>
    /\ commentBody = NoBody
    /\ pc = "diff"
    /\ filesInput = "dist/**"
    /\ sha = "head"
    /\ currentFilesSizes = headFiles
    /\ artifacts = <<>>
    /\ pulls = <<>>
    /\ tips = <<>>
    /\ comments = <<>>
    /\ pullRequests = <<>>
    /\ prIndex = 1
    /\ baseSha = "base"
    /\ headSha = "head"
    /\ previousComment = <<>>
    /\ outcome = "running"
    /\ trace = <<>>
    /\ runs = 1

BuildComment ==
    /\ pc = "diff"
    /\ LET changes == FileSizeChanges(baseFiles, headFiles, matchRegex)
       IN /\ fileSizeChanges' = changes
          /\ commentBody' = CommentBody(baseFiles, headFiles, changes, baseSha, headSha)
    /\ pc' = "diffed"
    /\ UNCHANGED <<context, repository, pullRequests, prIndex, baseSha, headSha,
                   baseFiles, headFiles, previousComment, outcome, trace, runs>>

NextDiff == BuildComment

SpecDiff == InitDiff /\ [][NextDiff]_vars

-----------------------------------------------------------------------------
(* One run of main (lines 285-463) against a repository *)

SHAs == { "sha1", "sha2" }
Refs == { "main", "feat1", "feat2" }

\* An element of pulls: a pull request as pulls.list / the repository holds it
PullRequest(number, state, draft, baseRef, headRef) ==
    [number |-> number, state |-> state, draft |-> draft,
     base |-> [ref |-> baseRef], head |-> [ref |-> headRef]]

PullKinds == { <<"open", FALSE>>, <<"open", TRUE>>, <<"closed", FALSE>> }

\* Three pull requests: feat1 -> main, feat2 -> main, feat2 -> feat1
PullsOf(k) ==
    << PullRequest(1, k[1][1], k[1][2], "main", "feat1"),
       PullRequest(2, k[2][1], k[2][2], "main", "feat2"),
       PullRequest(3, k[3][1], k[3][2], "feat1", "feat2") >>

PullNumbers == { 1, 2, 3 }

\* Mutant of ListOpenPulls: the state filter is missing
ListAllPulls(all) == all

\* client.paginate(client.rest.pulls.list, {state: "open"})
ListOpenPulls(all) == SelectSeq(all, LAMBDA p : p.state = "open")

\* The outputs of the build that the files input globs
Builds ==
    { <<>>,
      << IFileSize(<<"chunk", "abc", "js">>, <<100, 40>>),
         IFileSize(<<"readme", "txt">>, <<100, 40>>) >>,
      << IFileSize(<<"chunk", "def", "js">>, <<120, 40>>),
         IFileSize(<<"readme", "txt">>, <<100, 50>>),
         IFileSize(<<"license", "txt">>, <<120, 40>>) >> }

\* An artifact of the repository.  status: "ok", "expired" (downloadArtifact
\* throws "Artifact has expired"), "error" (it throws something else) or
\* "corrupt" (the archive holds no parsable <sha>-file_sizes.json).
Artifact(s, status, content) ==
    [name |-> <<s, "-file_sizes">>, status |-> status, content |-> content]

StoredSnapshot ==
    << IFileSize(<<"chunk", "abc", "js">>, <<100, 40>>),
       IFileSize(<<"license", "txt">>, <<100, 40>>) >>

\* artifact.name.startsWith(sha)
NameStartsWith(name, s) == name # <<>> /\ name[1] = s

\* artifacts.find(artifact => artifact.name.startsWith(sha))
RECURSIVE FindArtifact(_, _)
FindArtifact(arts, s) ==
    IF arts = <<>> THEN <<>>
    ELSE IF NameStartsWith(Head(arts).name, s) THEN <<Head(arts)>>
    ELSE FindArtifact(Tail(arts), s)

Returned(value) == [threw |-> FALSE, message |-> "", value |-> value]
Threw(message)  == [threw |-> TRUE, message |-> message, value |-> <<>>]

\* Mutant of loadCachedFileSizes: a failed download is treated like a miss
loadCachedFileSizesDownloadFailureAsMiss(arts, s) ==
    IF arts = <<>> THEN Returned(<<>>)
    ELSE LET found == FindArtifact(arts, s)
         IN IF found = <<>> THEN Returned(<<>>)
            ELSE IF found[1].status = "ok" THEN Returned(found[1].content)
            ELSE Returned(<<>>)

\* async function loadCachedFileSizes(client, repo, sha)
loadCachedFileSizes(arts, s) ==
    IF arts = <<>> THEN Returned(<<>>)
    ELSE LET found == FindArtifact(arts, s)
         IN IF found = <<>> THEN Returned(<<>>)
            ELSE CASE found[1].status = "expired" ->
                        Threw("no downloadable artifacts found (expired)")
                   [] found[1].status = "error" -> Threw("download failed")
                   [] found[1].status = "corrupt" -> Returned(<<>>)
                   [] found[1].status = "ok" -> Returned(found[1].content)

\* A comment somebody else wrote
OtherComment == [heading |-> <<"LGTM">>, link |-> <<"", "">>, table |-> <<>>]

\* A report a previous run left
OldReport == [heading |-> SIZE_COMPARE_HEADING, link |-> <<"sha0", "sha0">>, table |-> <<>>]

\* comment.body?.startsWith(SIZE_COMPARE_HEADING)
StartsWithHeading(body) == body.heading = SIZE_COMPARE_HEADING

\* The position of the first comment whose body starts with the heading, else 0
FirstReport(cs) ==
    IF \E c \in 1..Len(cs) : StartsWithHeading(cs[c])
    THEN CHOOSE c \in 1..Len(cs) :
            /\ StartsWithHeading(cs[c])
            /\ \A d \in 1..(c - 1) : ~StartsWithHeading(cs[d])
    ELSE 0

\* Mutant of fetchPreviousComment: only the first comment is examined
fetchPreviousCommentFirstOnly(cs) ==
    IF cs # <<>> /\ StartsWithHeading(cs[1]) THEN <<[id |-> 1]>> ELSE <<>>

\* async function fetchPreviousComment(octokit, repo, pr): <<>> for null, else
\* <<comment>>; a comment's id is its position among the pull request's comments
fetchPreviousComment(cs) ==
    IF FirstReport(cs) = 0 THEN <<>> ELSE <<[id |-> FirstReport(cs)]>>

Event(kind, number) == [kind |-> kind, pr |-> number]

pr == pullRequests[prIndex]

InLoop == pc = "pr" /\ prIndex <= Len(pullRequests)

Init ==
    /\ filesInput \in { "", "dist/**" }
    /\ matchRegex \in Patterns
    /\ sha = "sha1"
    /\ currentFilesSizes \in Builds
    /\ artifacts \in { <<>> } \cup
          { <<Artifact("sha2", st, StoredSnapshot)>> :
                st \in { "ok", "expired", "error", "corrupt" } }
    /\ pulls \in { PullsOf(k) : k \in [1..3 -> PullKinds] }
    /\ tips \in [Refs -> SHAs]
    /\ comments \in [PullNumbers -> { <<OtherComment>>, <<OtherComment, OldReport>> }]
    /\ pullRequests = <<>>
    /\ prIndex = 1
    /\ baseSha = ""
    /\ headSha = ""
    /\ baseFiles = <<>>
    /\ headFiles = <<>>
    /\ fileSizeChanges = <<>>
    /\ commentBody = NoBody
    /\ previousComment = <<>>
    /\ pc = "start"
    /\ outcome = "running"
    /\ trace = <<>>
    /\ runs = 1

\* if (!files) { info("No files specified. Skipping"); return }
SkipNoFiles ==
    /\ pc = "start"
    /\ filesInput = ""
    /\ pc' = "done"
    /\ outcome' = "success"
    /\ UNCHANGED <<context, repository, locals, trace, runs>>

\* The artifact of the current sizes is uploaded; no pull request is open: return
NoPullRequests ==
    /\ pc = "start"
    /\ filesInput # ""
    /\ ListOpenPulls(pulls) = <<>>
    /\ artifacts' = Append(artifacts, Artifact(sha, "ok", currentFilesSizes))
    /\ pc' = "done"
    /\ outcome' = "success"
    /\ UNCHANGED <<context, pulls, tips, comments, locals, trace, runs>>

\* The artifact of the current sizes is uploaded and the open pull requests listed
ListPullRequests ==
    /\ pc = "start"
    /\ filesInput # ""
    /\ ListOpenPulls(pulls) # <<>>
    /\ artifacts' = Append(artifacts, Artifact(sha, "ok", currentFilesSizes))
    /\ pullRequests' = ListOpenPulls(pulls)
    /\ prIndex' = 1
    /\ pc' = "pr"
    /\ UNCHANGED <<context, pulls, tips, comments, baseSha, headSha, baseFiles,
                   headFiles, fileSizeChanges, commentBody, previousComment,
                   outcome, trace, runs>>

\* if (pr.draft) continue
SkipDraft ==
    /\ InLoop
    /\ pr.draft
    /\ trace' = Append(trace, Event("skipDraft", pr.number))
    /\ prIndex' = prIndex + 1
    /\ UNCHANGED <<context, repository, pullRequests, baseSha, headSha, baseFiles,
                   headFiles, fileSizeChanges, commentBody, previousComment,
                   pc, outcome, runs>>

Stale(p) == sha # tips[p.base.ref] /\ sha # tips[p.head.ref]

\* if (sha !== baseSha && sha !== headSha) continue
SkipStale ==
    /\ InLoop
    /\ ~pr.draft
    /\ Stale(pr)
    /\ baseSha' = tips[pr.base.ref]
    /\ headSha' = tips[pr.head.ref]
    /\ trace' = Append(trace, Event("skipStale", pr.number))
    /\ prIndex' = prIndex + 1
    /\ UNCHANGED <<context, repository, pullRequests, baseFiles, headFiles,
                   fileSizeChanges, commentBody, previousComment, pc, outcome, runs>>

\* baseFiles: the current sizes, or the cached ones of baseSha
LoadedBase(p) ==
    IF tips[p.base.ref] # sha THEN loadCachedFileSizes(artifacts, tips[p.base.ref])
    ELSE Returned(currentFilesSizes)

\* headFiles: the current sizes, or the cached ones of headSha
LoadedHead(p) ==
    IF tips[p.head.ref] # sha THEN loadCachedFileSizes(artifacts, tips[p.head.ref])
    ELSE Returned(currentFilesSizes)

\* info("UPDATE PR: " + pr.number), then the loadCachedFileSizes calls made for p
LoadEvents(p) ==
    <<Event("updatePR", p.number)>>
    \o (IF tips[p.base.ref] # sha THEN <<Event("load", p.number)>> ELSE <<>>)
    \o (IF tips[p.head.ref] # sha /\ ~LoadedBase(p).threw
        THEN <<Event("load", p.number)>> ELSE <<>>)

\* Both snapshots are obtained
LoadFiles ==
    /\ InLoop
    /\ ~pr.draft
    /\ ~Stale(pr)
    /\ ~LoadedBase(pr).threw
    /\ ~LoadedHead(pr).threw
    /\ baseSha' = tips[pr.base.ref]
    /\ headSha' = tips[pr.head.ref]
    /\ baseFiles' = LoadedBase(pr).value
    /\ headFiles' = LoadedHead(pr).value
    /\ trace' = trace \o LoadEvents(pr)
    /\ pc' = "diff"
    /\ UNCHANGED <<context, repository, pullRequests, prIndex, fileSizeChanges,
                   commentBody, previousComment, outcome, runs>>

\* loadCachedFileSizes throws: nothing in main catches it, main().catch calls setFailed
LoadFilesThrows ==
    /\ InLoop
    /\ ~pr.draft
    /\ ~Stale(pr)
    /\ LoadedBase(pr).threw \/ LoadedHead(pr).threw
    /\ baseSha' = tips[pr.base.ref]
    /\ headSha' = tips[pr.head.ref]
    /\ trace' = trace \o LoadEvents(pr)
    /\ outcome' = IF LoadedBase(pr).threw THEN LoadedBase(pr).message
                  ELSE LoadedHead(pr).message
    /\ pc' = "done"
    /\ UNCHANGED <<context, repository, pullRequests, prIndex, baseFiles, headFiles,
                   fileSizeChanges, commentBody, previousComment, runs>>

\* const previousComment = await fetchPreviousComment(...)
FetchPrevious ==
    /\ pc = "diffed"
    /\ prIndex <= Len(pullRequests)
    /\ previousComment' = fetchPreviousComment(comments[pr.number])
    /\ trace' = Append(trace, Event("find", pr.number))
    /\ pc' = "upsert"
    /\ UNCHANGED <<context, repository, pullRequests, prIndex, baseSha, headSha,
                   baseFiles, headFiles, fileSizeChanges, commentBody, outcome, runs>>

\* issues.listComments throws: the call is outside the try blocks
FetchPreviousThrows ==
    /\ pc = "diffed"
    /\ prIndex <= Len(pullRequests)
    /\ trace' = Append(trace, Event("findFailed", pr.number))
    /\ outcome' = "listComments failed"
    /\ pc' = "done"
    /\ UNCHANGED <<context, repository, locals, runs>>

\* try { await client.rest.issues.updateComment(...) }
UpdateComment ==
    /\ pc = "upsert"
    /\ previousComment # <<>>
    /\ comments' = [comments EXCEPT
                       ![pr.number][previousComment[1].id] = commentBody]
    /\ trace' = Append(trace, Event("update", pr.number))
    /\ prIndex' = prIndex + 1
    /\ pc' = "pr"
    /\ UNCHANGED <<context, artifacts, pulls, tips, pullRequests, baseSha, headSha,
                   baseFiles, headFiles, fileSizeChanges, commentBody,
                   previousComment, outcome, runs>>

\* Mutant of UpdateCommentFails: the error is not caught
UpdateCommentFailsUncaught ==
    /\ pc = "upsert"
    /\ previousComment # <<>>
    /\ trace' = Append(trace, Event("updateFailed", pr.number))
    /\ outcome' = "updateComment failed"
    /\ pc' = "done"
    /\ UNCHANGED <<context, repository, locals, runs>>

\* updateComment throws: catch (error) { debug(...) }
UpdateCommentFails ==
    /\ pc = "upsert"
    /\ previousComment # <<>>
    /\ trace' = Append(trace, Event("updateFailed", pr.number))
    /\ prIndex' = prIndex + 1
    /\ pc' = "pr"
    /\ UNCHANGED <<context, repository, pullRequests, baseSha, headSha, baseFiles,
                   headFiles, fileSizeChanges, commentBody, previousComment,
                   outcome, runs>>

\* try { await client.rest.issues.createComment(...) }
CreateComment ==
    /\ pc = "upsert"
    /\ previousComment = <<>>
    /\ comments' = [comments EXCEPT ![pr.number] = Append(@, commentBody)]
    /\ trace' = Append(trace, Event("create", pr.number))
    /\ prIndex' = prIndex + 1
    /\ pc' = "pr"
    /\ UNCHANGED <<context, artifacts, pulls, tips, pullRequests, baseSha, headSha,
                   baseFiles, headFiles, fileSizeChanges, commentBody,
                   previousComment, outcome, runs>>

\* createComment throws: catch (error) { debug(...) }
CreateCommentFails ==
    /\ pc = "upsert"
    /\ previousComment = <<>>
    /\ trace' = Append(trace, Event("createFailed", pr.number))
    /\ prIndex' = prIndex + 1
    /\ pc' = "pr"
    /\ UNCHANGED <<context, repository, pullRequests, baseSha, headSha, baseFiles,
                   headFiles, fileSizeChanges, commentBody, previousComment,
                   outcome, runs>>

\* The for loop is over: main returns
Return ==
    /\ pc = "pr"
    /\ prIndex > Len(pullRequests)
    /\ pc' = "done"
    /\ outcome' = "success"
    /\ UNCHANGED <<context, repository, locals, trace, runs>>

Next ==
    \/ SkipNoFiles
    \/ NoPullRequests
    \/ ListPullRequests
    \/ SkipDraft
    \/ SkipStale
    \/ LoadFiles
    \/ LoadFilesThrows
    \/ BuildComment
    \/ FetchPrevious
    \/ FetchPreviousThrows
    \/ UpdateComment
    \/ UpdateCommentFails
    \/ CreateComment
    \/ CreateCommentFails
    \/ Return

Spec == Init /\ [][Next]_vars

-----------------------------------------------------------------------------
(* Runs of the action one after another on one repository, none overlapping *)

MaxRuns == 2       \* runs in a row
MaxComments == 2   \* comments on one pull request

\* The files input is set; pull request 2 is a draft; an artifact may have expired;
\* no pull request has a comment whose body starts with the heading.
InitRuns ==
    /\ filesInput = "dist/**"
    /\ matchRegex = "([a-z]+)\\..*\\.js$"
    /\ sha \in SHAs
    /\ currentFilesSizes \in Builds
    /\ artifacts \in { <<>>, <<Artifact("sha2", "expired", <<>>)>> }
    /\ pulls = PullsOf(<< <<"open", FALSE>>, <<"open", TRUE>>, <<"open", FALSE>> >>)
    /\ tips \in [Refs -> SHAs]
    /\ comments = [n \in PullNumbers |-> <<>>]
    /\ pullRequests = <<>>
    /\ prIndex = 1
    /\ baseSha = ""
    /\ headSha = ""
    /\ baseFiles = <<>>
    /\ headFiles = <<>>
    /\ fileSizeChanges = <<>>
    /\ commentBody = NoBody
    /\ previousComment = <<>>
    /\ pc = "start"
    /\ outcome = "running"
    /\ trace = <<>>
    /\ runs = 1

\* The previous run is over; a later push starts the action again, as a new process
NewRun ==
    /\ pc = "done"
    /\ runs < MaxRuns
    /\ runs' = runs + 1
    /\ sha' \in SHAs
    /\ tips' \in [Refs -> SHAs]
    /\ pullRequests' = <<>>
    /\ prIndex' = 1
    /\ baseSha' = ""
    /\ headSha' = ""
    /\ baseFiles' = <<>>
    /\ headFiles' = <<>>
    /\ fileSizeChanges' = <<>>
    /\ commentBody' = NoBody
    /\ previousComment' = <<>>
    /\ pc' = "start"
    /\ outcome' = "running"
    /\ trace' = <<>>
    /\ UNCHANGED <<filesInput, matchRegex, currentFilesSizes, artifacts, pulls, comments>>

\* Somebody comments on pull request 1 before a run begins
PostOtherComment ==
    /\ pc = "start"
    /\ \E n \in { 1 } :
          /\ Len(comments[n]) < MaxComments
          /\ comments' = [comments EXCEPT ![n] = Append(@, OtherComment)]
    /\ UNCHANGED <<context, artifacts, pulls, tips, locals, pc, outcome, trace, runs>>

\* filesInput is set and a pull request is open in every state of these runs, so
\* SkipNoFiles and NoPullRequests are never enabled
NextRuns ==
    \/ ListPullRequests
    \/ SkipDraft
    \/ SkipStale
    \/ LoadFiles
    \/ LoadFilesThrows
    \/ BuildComment
    \/ FetchPrevious
    \/ FetchPreviousThrows
    \/ UpdateComment
    \/ UpdateCommentFails
    \/ CreateComment
    \/ CreateCommentFails
    \/ Return
    \/ NewRun
    \/ PostOtherComment

SpecRuns == InitRuns /\ [][NextRuns]_vars

-----------------------------------------------------------------------------
(* Properties of the diff *)

Diffed == pc = "diffed"

KeyOf(r) == MatchKey(r.full, matchRegex)

HasKey(files, k) == \E i \in 1..Len(files) : KeyOf(files[i]) = k

\* The first record of files whose key is k (files has one)
FirstWithKey(files, k) ==
    files[CHOOSE i \in 1..Len(files) :
            /\ KeyOf(files[i]) = k
            /\ \A j \in 1..(i - 1) : KeyOf(files[j]) # k]

\* The rows of the table below the Total row
FileRows == SubSeq(commentBody.table, 2, Len(commentBody.table))

Bytes(n) == [prefix |-> "", number |-> n, unit |-> "B"]

SignedBytes(n) ==
    [prefix |-> IF n > 0 THEN "+" ELSE IF n < 0 THEN "-" ELSE " ",
     number |-> Abs(n), unit |-> "B"]

\* One file on each side, different paths, the same non-null key, different sizes
RenamedPair ==
    /\ Len(baseFiles) = 1
    /\ Len(headFiles) = 1
    /\ baseFiles[1].full # headFiles[1].full
    /\ KeyOf(baseFiles[1]) = KeyOf(headFiles[1])
    /\ KeyOf(baseFiles[1]) # NULL
    /\ baseFiles[1].size # headFiles[1].size

OneRowWithDelta ==
    /\ Len(FileRows) = 1
    /\ FileRows[1].Change.delta = SignedBytes(headFiles[1].size - baseFiles[1].size)
    /\ FileRows[1].Base = Bytes(baseFiles[1].size)
    /\ FileRows[1].Current = Bytes(headFiles[1].size)

\* C1 as stated: a renamed pair with one key yields exactly one row, whose delta is
\* head size minus base size and whose label is the head record's name.
C1_LabelIsHeadName ==
    (Diffed /\ RenamedPair) =>
        (OneRowWithDelta /\ FileRows[1].File = headFiles[1].name)

\* C1 amended: a renamed pair with one key yields exactly one row, whose delta is
\* head size minus base size and whose label is the base record's name (the head
\* record's name labels a row only when the base side is absent).
C1_LabelIsBaseName ==
    /\ (Diffed /\ RenamedPair) =>
          (OneRowWithDelta /\ FileRows[1].File = baseFiles[1].name)
    /\ (Diffed /\ baseFiles = <<>> /\ Len(headFiles) = 1) =>
          (Len(FileRows) = 1 /\ FileRows[1].File = headFiles[1].name)

C1_Witness ==
    /\ Diffed
    /\ RenamedPair
    /\ Len(FileRows) = 1
    /\ FileRows[1].File # headFiles[1].name

\* C2: diffing a snapshot against itself yields the Total row alone, with byte
\* delta 0 and percentage "=" for the raw and for the compressed size.
C2_Idempotence ==
    (Diffed /\ baseFiles = headFiles) =>
        /\ fileSizeChanges = <<>>
        /\ Len(commentBody.table) = 1
        /\ commentBody.table[1].File = <<"Total">>
        /\ commentBody.table[1].Change.pct.eq
        /\ commentBody.table[1].Change.delta = SignedBytes(0)
        /\ commentBody.table[1].GzipChange.pct.eq
        /\ commentBody.table[1].GzipChange.delta = SignedBytes(0)

\* A snapshot diffed against itself whose two records share a key and differ in size
C2_Witness ==
    /\ Diffed
    /\ baseFiles = headFiles
    /\ Len(baseFiles) = 2
    /\ KeyOf(baseFiles[1]) = KeyOf(baseFiles[2])
    /\ baseFiles[1].size # baseFiles[2].size
    /\ Len(commentBody.table) = 1

\* C3: every per-key row has exactly one side absent or sizes that differ; a key
\* whose first base and head records have equal size has no row, whatever their
\* gzip sizes; the Total row is always there.
C3_UnchangedFilter ==
    Diffed =>
        /\ \A i \in 1..Len(fileSizeChanges) :
              LET x == fileSizeChanges[i]
              IN \/ (x.base = <<>>) # (x.head = <<>>)
                 \/ (x.base # <<>> /\ x.head # <<>> /\ x.base[1].size # x.head[1].size)
        /\ \A k \in {KeyOf(baseFiles[i]) : i \in 1..Len(baseFiles)} :
              (HasKey(headFiles, k)
                 /\ FirstWithKey(baseFiles, k).size = FirstWithKey(headFiles, k).size)
              => \A i \in 1..Len(fileSizeChanges) :
                    /\ fileSizeChanges[i].base # <<>> => fileSizeChanges[i].base[1].match # k
                    /\ fileSizeChanges[i].head # <<>> => fileSizeChanges[i].head[1].match # k
        /\ Len(commentBody.table) = 1 + Len(fileSizeChanges)
        /\ commentBody.table[1].File = <<"Total">>
        /\ commentBody.table[1].Base = Bytes(sumSizes(baseFiles).size)
        /\ commentBody.table[1].Current = Bytes(sumSizes(headFiles).size)

\* Equal raw size and different gzip size under one key: no row, only the Total
C3_Witness ==
    /\ Diffed
    /\ Len(baseFiles) = 1
    /\ Len(headFiles) = 1
    /\ KeyOf(baseFiles[1]) = KeyOf(headFiles[1])
    /\ baseFiles[1].size = headFiles[1].size
    /\ baseFiles[1].gzip # headFiles[1].gzip
    /\ fileSizeChanges = <<>>
    /\ Len(commentBody.table) = 1

\* C4 as stated: every head record whose key matches no base record has a row of
\* its own, with base 0 B / gzip 0 B and the record's sizes on the head side.
C4_NoHeadOnlyFileDropped ==
    Diffed =>
        \A j \in 1..Len(headFiles) :
            ~HasKey(baseFiles, KeyOf(headFiles[j])) =>
                \E i \in 1..Len(fileSizeChanges) :
                    /\ fileSizeChanges[i].base = <<>>
                    /\ fileSizeChanges[i].head # <<>>
                    /\ fileSizeChanges[i].head[1].name = headFiles[j].name
                    /\ FileRows[i].Base = Bytes(0)
                    /\ FileRows[i].BaseGzip = Bytes(0)
                    /\ FileRows[i].Current = Bytes(headFiles[j].size)
                    /\ FileRows[i].CurrentGzip = Bytes(headFiles[j].gzip)

\* C5 as stated: a record whose key is null is grouped by its own name: no row
\* pairs two null-key records of different names, and a null-key head record that
\* no base record is named like has a row of its own.
C5_NullKeysNotMerged ==
    Diffed =>
        /\ \A i \in 1..Len(fileSizeChanges) :
              LET x == fileSizeChanges[i]
              IN (x.base # <<>> /\ x.head # <<>> /\ x.base[1].match = NULL)
                    => x.base[1].name = x.head[1].name
        /\ \A j \in 1..Len(headFiles) :
              (/\ KeyOf(headFiles[j]) = NULL
               /\ \A b \in 1..Len(baseFiles) : baseFiles[b].name # headFiles[j].name)
              => \E i \in 1..Len(fileSizeChanges) :
                    /\ fileSizeChanges[i].base = <<>>
                    /\ fileSizeChanges[i].head # <<>>
                    /\ fileSizeChanges[i].head[1].name = headFiles[j].name

\* C6 as stated: differencePercentage(0, b) is 0 for every b >= 0, so a row whose
\* base size is 0 renders "=" and no row renders Infinity or NaN.
C6_ZeroBaseIsZeroPercent ==
    Diffed =>
        \A i \in 1..Len(commentBody.table) :
            LET row == commentBody.table[i]
            IN /\ row.Change.pct.fixed = ""
               /\ row.GzipChange.pct.fixed = ""
               /\ row.Base = Bytes(0) => row.Change.pct.eq
               /\ row.BaseGzip = Bytes(0) => row.GzipChange.pct.eq

-----------------------------------------------------------------------------
(* Properties of a run *)

Last(s) == s[Len(s)]

\* The position in pullRequests of pull request number n (0 if it is not listed)
PositionOf(n) ==
    IF \E k \in 1..Len(pullRequests) : pullRequests[k].number = n
    THEN CHOOSE k \in 1..Len(pullRequests) : pullRequests[k].number = n
    ELSE 0

\* pulls[n] is pull request number n
PullNumbered(n) == pulls[n]

Eligible(p) ==
    /\ p.state = "open"
    /\ ~p.draft
    /\ (sha = tips[p.base.ref] \/ sha = tips[p.head.ref])

WriteKinds == { "create", "update", "createFailed", "updateFailed" }

HasEvent(kinds, n) ==
    \E e \in 1..Len(trace) : trace[e].pr = n /\ trace[e].kind \in kinds

TotalRow == commentBody.table[1]

\* C7 as stated: when the store has no artifact for the base SHA and head is the
\* non-empty current snapshot, base loads as the empty snapshot, the run goes on,
\* the Total row shows base 0 and head the sum of the head sizes, and every head
\* file has a row with the base side absent.
C7_StoreMissAllNew ==
    (/\ pc = "diffed"
     /\ baseSha # sha
     /\ FindArtifact(artifacts, baseSha) = <<>>
     /\ headSha = sha
     /\ currentFilesSizes # <<>>)
    => /\ baseFiles = <<>>
       /\ headFiles = currentFilesSizes
       /\ outcome = "running"
       /\ TotalRow.Base = Bytes(0)
       /\ TotalRow.Current = Bytes(sumSizes(currentFilesSizes).size)
       /\ \A j \in 1..Len(headFiles) :
             \E r \in 1..Len(FileRows) :
                 /\ FileRows[r].File = headFiles[j].name
                 /\ FileRows[r].Base = Bytes(0)
                 /\ FileRows[r].BaseGzip = Bytes(0)
                 /\ FileRows[r].Current = Bytes(headFiles[j].size)

ReportCount(cs) == Cardinality({ c \in 1..Len(cs) : StartsWithHeading(cs[c]) })

UpsertFailures == { "findFailed", "createFailed", "updateFailed" }

\* C9 as stated: no failure of a step of a comment upsert (finding, creating,
\* updating) ends the run.
C9_UpsertFailureNeverAborts ==
    (trace # <<>> /\ Last(trace).kind \in UpsertFailures)
        => ~(pc = "done" /\ outcome # "success")

\* C9 amended: a failure of creating or updating a comment is caught and the loop
\* goes on with the next pull request, so that a run that ends in success has made
\* an upsert attempt for every eligible pull request; a failure of finding the
\* existing comment is not caught and ends the run as failed.
C9_WriteFailureIsolated ==
    /\ (trace # <<>> /\ Last(trace).kind \in { "createFailed", "updateFailed" })
          => /\ prIndex = PositionOf(Last(trace).pr) + 1
             /\ \/ pc = "pr" /\ outcome = "running"
                \/ pc = "done" /\ outcome = "success" /\ prIndex > Len(pullRequests)
    /\ \A e \in 1..Len(trace) :
          trace[e].kind = "findFailed"
              => e = Len(trace) /\ pc = "done" /\ outcome = "listComments failed"
    /\ (pc = "done" /\ outcome = "success")
          => \A k \in 1..Len(pullRequests) :
                Eligible(pullRequests[k]) => HasEvent(WriteKinds, pullRequests[k].number)

\* A caught failure on one pull request, then a comment written on a later one
C9_Witness ==
    /\ pc = "done"
    /\ outcome = "success"
    /\ \E e1, e2 \in 1..Len(trace) :
          /\ e1 < e2
          /\ trace[e1].kind \in { "createFailed", "updateFailed" }
          /\ trace[e2].kind \in { "create", "update" }
          /\ trace[e1].pr # trace[e2].pr

\* C10: a comment is created or updated only on an open, non-draft pull request
\* whose base or head tip is the current commit; a draft or stale pull request is
\* skipped with no store lookup and no comment call, and the loop goes on after it.
C10_Eligibility ==
    /\ \A e \in 1..Len(trace) :
          trace[e].kind \in (WriteKinds \cup { "find", "findFailed", "load" })
              => Eligible(PullNumbered(trace[e].pr))
    /\ \A n \in PullNumbers :
          (\E c \in 1..Len(comments[n]) : comments[n][c] \notin { OtherComment, OldReport })
              => Eligible(PullNumbered(n))
    /\ \A e \in 1..Len(trace) :
          trace[e].kind \in { "skipDraft", "skipStale" }
              => /\ \A d \in 1..Len(trace) : trace[d].pr = trace[e].pr => d = e
                 /\ ~Eligible(PullNumbered(trace[e].pr))
                 /\ e = Len(trace) =>
                       /\ prIndex = PositionOf(trace[e].pr) + 1
                       /\ \/ pc = "pr" /\ outcome = "running"
                          \/ pc = "done" /\ outcome = "success"
                                /\ prIndex > Len(pullRequests)
    /\ (pc = "done" /\ outcome = "success" /\ filesInput # "")
          => \A n \in PullNumbers :
                PullNumbered(n).state = "open" =>
                    HasEvent(IF PullNumbered(n).draft THEN { "skipDraft" }
                             ELSE IF Eligible(PullNumbered(n)) THEN WriteKinds
                             ELSE { "skipStale" }, n)

\* A closed pull request, a draft skipped, a stale one skipped, then a comment
\* created on a later pull request
C10_Witness ==
    /\ pc = "done"
    /\ outcome = "success"
    /\ \E n \in PullNumbers : PullNumbered(n).state = "closed"
    /\ \E e1, e2 \in 1..Len(trace) :
          /\ e1 < e2
          /\ trace[e1].kind \in { "skipDraft", "skipStale" }
          /\ trace[e2].kind = "create"

ExpiredMessage == "no downloadable artifacts found (expired)"

\* The store lists an artifact for s, s is not the current commit, and the
\* download of that artifact fails with "Artifact has expired"
ExpiredFor(s) ==
    /\ s # sha
    /\ FindArtifact(artifacts, s) # <<>>
    /\ FindArtifact(artifacts, s)[1].status = "expired"

\* A snapshot that the run has to load for p has expired in the store
NeedsExpired(p) == ExpiredFor(tips[p.base.ref]) \/ ExpiredFor(tips[p.head.ref])

\* No call about pull request number n has been made after "UPDATE PR" but loads,
\* and its comments are the ones it had before the run
OnlyLoadsFor(n) ==
    /\ \A e \in 1..Len(trace) :
          trace[e].pr = n => trace[e].kind \in { "updatePR", "load" }
    /\ \A c \in 1..Len(comments[n]) : comments[n][c] \in { OtherComment, OldReport }

\* C11: when the run reaches a pull request for which a snapshot to load has an
\* artifact whose download fails as expired, loading returns no snapshot: the run
\* ends there as failed with the expiry message, no comment call is made for that
\* pull request, and no later pull request is touched; a plain miss, in contrast,
\* loads the empty snapshot and the run goes on.
C11_ExpiryIsFatal ==
    /\ (pc \in { "diff", "diffed", "upsert" }) => ~NeedsExpired(pr)
    /\ \A e \in 1..Len(trace) :
          (trace[e].kind = "updatePR" /\ NeedsExpired(PullNumbered(trace[e].pr)))
              => /\ pc = "done"
                 /\ outcome = ExpiredMessage
                 /\ prIndex = PositionOf(trace[e].pr)
                 /\ Last(trace) = Event("load", trace[e].pr)
                 /\ OnlyLoadsFor(trace[e].pr)
                 /\ \A k \in (prIndex + 1)..Len(pullRequests) :
                       /\ ~HasEvent({ "updatePR", "skipDraft", "skipStale", "load",
                                      "find", "findFailed" } \cup WriteKinds,
                                    pullRequests[k].number)
                       /\ OnlyLoadsFor(pullRequests[k].number)
    /\ outcome = ExpiredMessage =>
          /\ pc = "done"
          /\ prIndex <= Len(pullRequests)
          /\ NeedsExpired(pr)
    /\ (/\ pc = "diff"
        /\ baseSha # sha
        /\ FindArtifact(artifacts, baseSha) = <<>>)
          => baseFiles = <<>> /\ outcome = "running"

\* A comment written on the first pull request, the run failed on the second one
\* by the expired snapshot of its head, and an eligible third one left untouched
C11_Witness ==
    /\ pc = "done"
    /\ outcome = ExpiredMessage
    /\ Len(pullRequests) = 3
    /\ prIndex = 2
    /\ HasEvent({ "create", "update" }, pullRequests[1].number)
    /\ ExpiredFor(tips[pullRequests[2].head.ref])
    /\ Eligible(pullRequests[3])
    /\ ~HasEvent({ "updatePR" }, pullRequests[3].number)

-----------------------------------------------------------------------------
(* The rows and the Total *)

\* Every record of files has a key that is not null and that no other record has
DistinctKeys(files) ==
    /\ \A i \in 1..Len(files) : KeyOf(files[i]) # NULL
    /\ \A i, j \in 1..Len(files) : i # j => KeyOf(files[i]) # KeyOf(files[j])

\* The number of bytes a rendered size stands for
DeltaOf(text) == IF text.prefix = "-" THEN -text.number ELSE text.number

RECURSIVE SumRowDeltas(_)
SumRowDeltas(rows) ==
    IF rows = <<>> THEN 0
    ELSE DeltaOf(Head(rows).Change.delta) + SumRowDeltas(Tail(rows))

\* C12: when in each snapshot every key is non-null and no two records share a
\* key, the size delta of the Total row (sum of the head sizes minus sum of the
\* base sizes) is the sum of the size deltas of the per-key rows, each of them
\* being its head size minus its base size with an absent side counted as 0.
C12_RowsAccountForTotal ==
    (Diffed /\ DistinctKeys(baseFiles) /\ DistinctKeys(headFiles)) =>
        /\ DeltaOf(TotalRow.Change.delta)
              = sumSizes(headFiles).size - sumSizes(baseFiles).size
        /\ DeltaOf(TotalRow.Change.delta) = SumRowDeltas(FileRows)
        /\ \A i \in 1..Len(FileRows) :
              /\ DeltaOf(FileRows[i].Change.delta)
                    = DeltaOf(FileRows[i].Current) - DeltaOf(FileRows[i].Base)
              /\ FileRows[i].Base =
                    Bytes(IF fileSizeChanges[i].base = <<>> THEN 0
                          ELSE fileSizeChanges[i].base[1].size)
              /\ FileRows[i].Current =
                    Bytes(IF fileSizeChanges[i].head = <<>> THEN 0
                          ELSE fileSizeChanges[i].head[1].size)

\* Distinct keys, one key on both sides with sizes that differ and one key in head
\* only: two rows whose deltas add up to the delta of the Total
C12_Witness ==
    /\ Diffed
    /\ DistinctKeys(baseFiles)
    /\ DistinctKeys(headFiles)
    /\ Len(baseFiles) = 1
    /\ Len(headFiles) = 2
    /\ Len(FileRows) = 2
    /\ \E i, j \in 1..2 :
          /\ fileSizeChanges[i].base = <<>>
          /\ fileSizeChanges[j].base # <<>>
          /\ fileSizeChanges[j].head # <<>>
          /\ DeltaOf(FileRows[j].Change.delta) < 0
    /\ DeltaOf(TotalRow.Change.delta) = SumRowDeltas(FileRows)

=============================================================================
